---- MODULE Spec2Model ----
(***************************************************************************)
(* The supply-chain contract (chaincode) as a state machine over the       *)
(* world-state ledger.  Every submit transaction of the contract is one    *)
(* action; the evaluate transactions (marked Transaction(false) in the     *)
(* source) never commit a write and are operators over the ledger.         *)
(*                                                                         *)
(* Strings are sequences of tokens (a token is a run of characters), so    *)
(* that concatenation, prefixes and the lexicographic order of ledger keys *)
(* are computed.  JSON values are tagged tuples; an object is the ordered  *)
(* list of its members, as in JavaScript.                                  *)
(***************************************************************************)
EXTENDS Integers, Sequences, FiniteSets, TLC

VARIABLES
    ledger,      \* world state: key |-> stored JSON text (only written keys)
    clock,       \* the peer's wall clock in milliseconds (Date.now())
    nops,        \* number of transactions invoked so far
    last,        \* the last transaction invoked: its name and its outcome
    created,     \* history: the ids createProduct has succeeded for
    version,     \* world state: key |-> number of commits of the key
    pending,     \* transactions endorsed and not yet committed, oldest first
    wall,        \* the gateway's wall clock in milliseconds (Date.now())
    account,     \* SECURE_USERS[username]: failedAttempts and lockedUntil
    logins,      \* login requests waiting for bcrypt.compare to resolve
    nlogins,     \* number of login requests received so far
    answer,      \* the last response of the login endpoint
    lockout,     \* history: the last lockout imposed on the account
    request,     \* the last request to a protected route of the gateway
    breaker,     \* the CircuitBreaker: state, failureCount, lastFailureTime
    connections, \* the NetworkManager: whether connectionPool holds the
                 \* connection, and the createNewConnection calls not settled
    executed     \* history: calls of connectToNetwork, the last outcome, and
                 \* the operations invoked since the breaker turned HALF_OPEN

contractVars == <<ledger, clock, nops, last, created, version, pending>>
breakerVars == <<breaker, connections, executed>>
gatewayVars == <<wall, account, logins, nlogins, answer, lockout, breakerVars>>
allGatewayVars == <<wall, account, logins, nlogins, answer, lockout, request, breakerVars>>
vars == <<contractVars, allGatewayVars>>

-----------------------------------------------------------------------------
(* Bounds of the model *)

MaxClock == 1
MaxOps == 3

-----------------------------------------------------------------------------
(* JSON values *)

Str(s) == <<"string", s>>
Num(n) == <<"number", n>>
Bool(b) == <<"boolean", b>>
Null == <<"null">>
Undefined == <<"undefined">>
Obj(members) == <<"object", members>>
Arr(elems) == <<"array", elems>>

IsStr(v) == v[1] = "string"
IsNum(v) == v[1] = "number"
IsObj(v) == v[1] = "object"
IsArr(v) == v[1] = "array"
IsNullish(v) == v[1] \in {"null", "undefined"}

\* members of an object, elements of an array, payload of a primitive
Val(v) == v[2]

Names(o) == {Val(o)[i][1] : i \in 1..Len(Val(o))}

\* the places of the members called name
Places(o, name) == {i \in 1..Len(Val(o)) : Val(o)[i][1] = name}

Has(o, name) == IsObj(o) /\ Places(o, name) # {}

\* o[name]: the value of the member, undefined when there is none
Get(o, name) ==
    IF Has(o, name)
    THEN Val(o)[CHOOSE i \in Places(o, name) : TRUE][2]
    ELSE Undefined

\* o[name] = v: an existing member keeps its place, a new one goes last
Set(o, name, v) ==
    IF Has(o, name)
    THEN Obj([i \in 1..Len(Val(o)) |->
                 IF Val(o)[i][1] = name THEN <<name, v>> ELSE Val(o)[i]])
    ELSE Obj(Append(Val(o), <<name, v>>))

IsNested(v) == v[1] \in {"object", "array"}

RECURSIVE JSONstringify(_)

StringifyMembers(ms) ==
    [i \in 1..Len(ms) |->
        IF IsNested(ms[i][2]) THEN <<ms[i][1], JSONstringify(ms[i][2])>> ELSE ms[i]]

StringifyElements(es) ==
    [i \in 1..Len(es) |->
        IF es[i] = Undefined THEN Null
        ELSE IF IsNested(es[i]) THEN JSONstringify(es[i]) ELSE es[i]]

\* JSON.stringify: members whose value is undefined are left out, an
\* undefined array element is written as null
JSONstringify(v) ==
    IF IsObj(v) THEN
        Obj(StringifyMembers(
            IF \A i \in 1..Len(Val(v)) : Val(v)[i][2] # Undefined THEN Val(v)
            ELSE SelectSeq(Val(v), LAMBDA m : m[2] # Undefined)))
    ELSE IF IsArr(v) THEN Arr(StringifyElements(Val(v)))
    ELSE v

\* the members of a JSON object text as JSON.parse keeps them: when a name
\* occurs twice the later value wins, at the place of the first occurrence
ParsedMembers(ms) ==
    IF Cardinality({ms[i][1] : i \in 1..Len(ms)}) = Len(ms) THEN ms
    ELSE LET first(i) == \A j \in 1..(i - 1) : ms[j][1] # ms[i][1]
             lastOf(n) == CHOOSE j \in 1..Len(ms) :
                            /\ ms[j][1] = n
                            /\ \A k \in (j + 1)..Len(ms) : ms[k][1] # n
             idx == SelectSeq([i \in 1..Len(ms) |-> i], first)
         IN  [i \in 1..Len(idx) |-> <<ms[idx[i]][1], ms[lastOf(ms[idx[i]][1])][2]>>]

RECURSIVE JSONparse(_)

ParseMembers(ms) ==
    [i \in 1..Len(ms) |->
        IF IsNested(ms[i][2]) THEN <<ms[i][1], JSONparse(ms[i][2])>> ELSE ms[i]]

ParseElements(es) ==
    [i \in 1..Len(es) |-> IF IsNested(es[i]) THEN JSONparse(es[i]) ELSE es[i]]

\* JSON.parse
JSONparse(t) ==
    IF IsObj(t) THEN Obj(ParseMembers(ParsedMembers(Val(t))))
    ELSE IF IsArr(t) THEN Arr(ParseElements(Val(t)))
    ELSE t

-----------------------------------------------------------------------------
(* Strings: token sequences *)

\* code of the first character of a token: the order of ledger keys and of
\* ISO timestamps is the lexicographic order of their characters
CharCode(tok) ==
    CASE tok = "0" -> 48 [] tok = "1" -> 49 [] tok = "2" -> 50
      [] tok = "3" -> 51 [] tok = "4" -> 52 [] tok = "5" -> 53
      [] tok = "6" -> 54 [] tok = "7" -> 55 [] tok = "8" -> 56
      [] tok = "9" -> 57
      [] tok = "NOTIF_" -> 78
      [] tok = "QUALITY_" -> 81
      [] tok = "_" -> 95
      [] tok = "a" -> 97
      [] tok = "b" -> 98
      [] tok = "x" -> 120
      [] tok = "y" -> 121
      [] tok = "uFFFF" -> 65535

RECURSIVE LexLess(_, _)
\* a < b for strings
LexLess(a, b) ==
    IF b = <<>> THEN FALSE
    ELSE IF a = <<>> THEN TRUE
    ELSE IF Head(a) = Head(b) THEN LexLess(Tail(a), Tail(b))
    ELSE CharCode(Head(a)) < CharCode(Head(b))

LexLeq(a, b) == a = b \/ LexLess(a, b)

\* String.prototype.trim() === ''
IsBlank(s) == \A i \in 1..Len(s) : s[i] \in {"", " "}

\* String.prototype.includes('T')
IncludesT(s) == \E i \in 1..Len(s) : s[i] \in {"T", "NOTIF_", "QUALITY_"}

Digits == <<"0", "1", "2", "3", "4", "5", "6", "7", "8", "9">>

RECURSIVE NumToString(_)
\* `${n}` for an integer n >= 0
NumToString(n) ==
    IF n < 10 THEN <<Digits[n + 1]>>
    ELSE NumToString(n \div 10) \o <<Digits[(n % 10) + 1]>>

-----------------------------------------------------------------------------
(* Dates *)

\* days since 1970-01-01 of the calendar dates the model uses
DayNumber(tok) ==
    CASE tok = "2021-06-24" -> 18802
      [] tok = "2021-06-26" -> 18804
      [] tok = "2021-06-27" -> 18805
      [] tok = "2021-06-30" -> 18808
      [] tok = "2021-07-01" -> 18809
      [] tok = "2022-06-24" -> 19167

\* seconds since midnight of the times of day the model uses
SecondOfDay(tok) ==
    CASE tok = "00:00:00.000Z" -> 0
      [] tok = "10:00:00.000Z" -> 36000
      [] tok = "18:00:58.511Z" -> 64858
      [] tok = "18:25:43.511Z" -> 66343

DayTokens == {"2021-06-24", "2021-06-26", "2021-06-27", "2021-06-30",
              "2021-07-01", "2022-06-24"}
TimeTokens == {"00:00:00.000Z", "10:00:00.000Z", "18:00:58.511Z", "18:25:43.511Z"}

\* isNaN(new Date(s).getTime()): the strings that parse are a date
\* "YYYY-MM-DD" alone or followed by "T" and a time of day
IsNaNDate(s) ==
    ~ \/ Len(s) = 1 /\ s[1] \in DayTokens
      \/ Len(s) = 3 /\ s[1] \in DayTokens /\ s[2] = "T" /\ s[3] \in TimeTokens

\* new Date(s).getTime() of a string that parses, in whole seconds
GetTime(s) ==
    DayNumber(s[1]) * 86400 + (IF Len(s) = 3 THEN SecondOfDay(s[3]) ELSE 0)

\* milliseconds past the whole second of the times of day the model uses
MillisOfSecond(tok) ==
    CASE tok = "00:00:00.000Z" -> 0
      [] tok = "10:00:00.000Z" -> 0
      [] tok = "18:00:58.511Z" -> 511
      [] tok = "18:25:43.511Z" -> 511

\* new Date(s).getTime() % 1000 of a string that parses
GetMillis(s) == IF Len(s) = 3 THEN MillisOfSecond(s[3]) ELSE 0

\* new Date(s).toISOString().substring(0, 7) of a string that parses: the
\* strings of the model are in UTC, so the month is the one written
YearMonth(s) ==
    CASE s[1] \in {"2021-06-24", "2021-06-26", "2021-06-27", "2021-06-30"} -> "2021-06"
      [] s[1] = "2021-07-01" -> "2021-07"
      [] s[1] = "2022-06-24" -> "2022-06"

\* months since year 0 of a "YYYY-MM": the order localeCompare gives them
MonthNumber(month) ==
    CASE month = "2021-06" -> 2021 * 12 + 6
      [] month = "2021-07" -> 2021 * 12 + 7
      [] month = "2022-06" -> 2022 * 12 + 6

\* new Date(month + "-01").toLocaleDateString("en-US", {month: "short"}):
\* midnight UTC of the first of the month, shown in the peer's time zone, which
\* west of UTC is still the evening of the month before
ShortMonth(month, westOfUTC) ==
    CASE month = "2021-06" -> IF westOfUTC THEN "May" ELSE "Jun"
      [] month = "2021-07" -> IF westOfUTC THEN "Jun" ELSE "Jul"
      [] month = "2022-06" -> IF westOfUTC THEN "May" ELSE "Jun"

\* milliseconds field of an ISO timestamp: three digits
Pad3(n) ==
    IF n < 10 THEN <<"0", "0">> \o NumToString(n)
    ELSE IF n < 100 THEN <<"0">> \o NumToString(n)
    ELSE NumToString(n)

\* new Date(ms).toISOString() of the wall clock (ms below one second)
ToISOString(ms) == <<"1970-01-01", "T", "00:00:00.">> \o Pad3(ms) \o <<"Z">>


-----------------------------------------------------------------------------
(* Outcomes of a transaction *)

OK == <<"ok">>
FieldRequired(fieldName) == <<"FieldRequired", fieldName>>
AlreadyExists == <<"AlreadyExists">>
NotFound == <<"NotFound">>
NotificationNotFound == <<"NotificationNotFound">>
InvalidDate(what) == <<"InvalidDateFormat", what>>
ExpirationNotAfterProduction == <<"ExpirationNotAfterProduction">>
UnitQuantityNotPositive == <<"UnitQuantityNotPositive">>
BatchQuantityNotPositive == <<"BatchQuantityNotPositive">>
NameTooLong == <<"NameTooLong">>
PlaceOfOriginTooLong == <<"PlaceOfOriginTooLong">>
ScoreOutOfRange == <<"ScoreOutOfRange">>
TypeError == <<"TypeError">>
RangeError == <<"RangeError">>
StorageError == <<"StorageError">>

\* A transaction that throws commits nothing: its write set is discarded
Result(err, writes) == [err |-> err, writes |-> IF err = OK THEN writes ELSE <<>>]

-----------------------------------------------------------------------------
(* The ledger: ctx.stub *)

\* getState(key): the stored text, or the empty buffer
Stored(L, key) == key \in DOMAIN L

\* the ledger after the putState calls of a write set, in order
RECURSIVE ApplyWrites(_, _)
ApplyWrites(L, writes) ==
    IF writes = <<>> THEN L
    ELSE LET w == Head(writes)
             L1 == [k \in DOMAIN L \cup {w[1]} |-> IF k = w[1] THEN w[2] ELSE L[k]]
         IN  ApplyWrites(L1, Tail(writes))

RECURSIVE SortKeys(_)
\* the keys of a set in ledger (lexicographic) order
SortKeys(S) ==
    IF S = {} THEN <<>>
    ELSE LET m == CHOOSE k \in S : \A j \in S : LexLeq(k, j)
         IN  <<m>> \o SortKeys(S \ {m})

\* getStateByRange(startKey, endKey): startKey <= key < endKey, in key order
GetStateByRange(L, startKey, endKey) ==
    SortKeys({k \in DOMAIN L : LexLeq(startKey, k) /\ LexLess(k, endKey)})

\* getQueryResult of the selector {"<field>": {"$exists": true}}: the keys of
\* the documents that have the field, in key order
QueryExists(L, field) ==
    SortKeys({k \in DOMAIN L : Has(L[k], field)})

-----------------------------------------------------------------------------
(* Private helpers of the contract *)

\* number of characters of a token (one unless listed)
TokenLength(tok) ==
    CASE tok = "Apples" -> 6
      [] tok = "Pears" -> 5
      [] tok = "Markham, ON, Canada" -> 19
      [] tok = "NOTIF_" -> 6
      [] tok = "QUALITY_" -> 8
      [] tok = "" -> 0
      [] OTHER -> 1

RECURSIVE StrLength(_)
\* String.prototype.length
StrLength(s) == IF s = <<>> THEN 0 ELSE TokenLength(Head(s)) + StrLength(Tail(s))

\* a requireField that takes every falsy value, 0 included, for a missing one
requireFieldFalsy(value) ==
    \/ IsStr(value) /\ IsBlank(Val(value))
    \/ IsNullish(value)
    \/ IsNum(value) /\ Val(value) = 0

\* a requireField that lets strings of blanks through
requireFieldNullOnly(value) == IsNullish(value)

\* requireField(value, fieldName) throws
requireFieldThrows(value) ==
    \/ IsStr(value) /\ IsBlank(Val(value))
    \/ IsNullish(value)

\* isValidDate(dateString), for a string
isValidDate(dateString) ==
    ~IsNaNDate(Val(dateString)) /\ IncludesT(Val(dateString))

RequiredProductFields ==
    <<"id", "name", "barcode", "placeOfOrigin", "productionDate", "expirationDate",
      "unitQuantity", "unitQuantityType", "unitPrice", "category">>

\* validateProductData(product): OK, or the error it throws.  Reading a
\* property of null or undefined is a TypeError; so is String.includes on a
\* value that is not a string.  Quantities are compared as numbers.
validateProductData(product) ==
    LET missing == SelectSeq(RequiredProductFields,
                             LAMBDA f : requireFieldThrows(Get(product, f)))
        ld == Get(product, "locationData")
        cur == Get(ld, "current")
        production == Get(product, "productionDate")
        expiration == Get(product, "expirationDate")
        arrival == Get(cur, "arrivalDate")
        unitQuantity == Get(product, "unitQuantity")
        batchQuantity == Get(product, "batchQuantity")
        name == Get(product, "name")
        origin == Get(product, "placeOfOrigin")
    IN  IF missing # <<>> THEN FieldRequired(Head(missing))
        ELSE IF IsNullish(ld) \/ IsNullish(cur) THEN TypeError
        ELSE IF requireFieldThrows(Get(cur, "location"))
             THEN FieldRequired("locationData.current.location")
        ELSE IF requireFieldThrows(arrival)
             THEN FieldRequired("locationData.current.arrivalDate")
        ELSE IF ~IsStr(production) \/ ~IsStr(expiration) \/ ~IsStr(arrival) THEN TypeError
        ELSE IF ~isValidDate(production) THEN InvalidDate("production")
        ELSE IF ~isValidDate(expiration) THEN InvalidDate("expiration")
        ELSE IF ~isValidDate(arrival) THEN InvalidDate("arrival")
        ELSE IF GetTime(Val(expiration)) <= GetTime(Val(production))
             THEN ExpirationNotAfterProduction
        ELSE IF IsNum(unitQuantity) /\ Val(unitQuantity) <= 0 THEN UnitQuantityNotPositive
        ELSE IF IsNum(batchQuantity) /\ Val(batchQuantity) # 0 /\ Val(batchQuantity) <= 0
             THEN BatchQuantityNotPositive
        ELSE IF IsStr(name) /\ StrLength(Val(name)) > 100 THEN NameTooLong
        ELSE IF IsStr(origin) /\ StrLength(Val(origin)) > 200 THEN PlaceOfOriginTooLong
        ELSE OK

\* validateQualityRecord(qualityRecord): OK, or the error it throws
validateQualityRecord(qualityRecord) ==
    LET missing == SelectSeq(<<"inspector", "score", "notes", "timestamp">>,
                             LAMBDA f : requireFieldThrows(Get(qualityRecord, f)))
        score == Get(qualityRecord, "score")
        timestamp == Get(qualityRecord, "timestamp")
    IN  IF missing # <<>> THEN FieldRequired(Head(missing))
        ELSE IF IsNum(score) /\ (Val(score) < 0 \/ Val(score) > 100) THEN ScoreOutOfRange
        ELSE IF ~IsStr(timestamp) THEN TypeError
        ELSE IF ~isValidDate(timestamp) THEN InvalidDate("timestamp")
        ELSE OK

\* an existence check that finds nothing
productExistsNever(L, productId) == FALSE

\* productExists(ctx, productId)
productExists(L, productId) == Stored(L, productId)

\* readProduct(ctx, productId), for a stored key
readProduct(L, productId) == JSONparse(L[productId])

\* no putState at all
NoNotificationWrite(notificationData) == <<>>

\* the putState of a notification
NotificationWrite(notificationData) ==
    <<<<Val(Get(notificationData, "id")), JSONstringify(notificationData)>>>>

\* a createNotification without the try block: what putState throws leaves it
createNotificationUncaught(notificationData, putStateFails) ==
    IF putStateFails THEN Result(StorageError, <<>>)
    ELSE Result(OK, NotificationWrite(notificationData))

\* createNotification(ctx, notificationData): when putState throws, the catch
\* block logs the error and the function returns normally, nothing written
createNotification(notificationData, putStateFails) ==
    IF putStateFails THEN Result(OK, <<>>)
    ELSE Result(OK, NotificationWrite(notificationData))

\* a transaction that makes its own writes and then awaits createNotification
ThenNotify(writes, emitted) == Result(emitted.err, writes \o emitted.writes)

\* `NOTIF_${Date.now()}_${Math.random().toString(36).substr(2, 9)}`
NotificationId(now, rnd) == <<"NOTIF_">> \o NumToString(now) \o <<"_">> \o rnd

\* `QUALITY_${productId}_${Date.now()}`
QualityKey(productId, now) == <<"QUALITY_">> \o productId \o <<"_">> \o NumToString(now)

\* new ProductLocationEntry({arrivalDate, location})
ProductLocationEntry(arrivalDate, location) ==
    Obj(<< <<"arrivalDate", arrivalDate>>, <<"location", location>> >>)

\* the notification object literal of the three emitting transactions
Notification(id, productId, type, message, timestamp, location, severity) ==
    Obj(<< <<"id", Str(id)>>,
           <<"productId", Str(productId)>>,
           <<"type", Str(<<type>>)>>,
           <<"message", Str(message)>>,
           <<"timestamp", Str(timestamp)>>,
           <<"location", location>>,
           <<"severity", Str(<<severity>>)>>,
           <<"acknowledged", Bool(FALSE)>> >>)

-----------------------------------------------------------------------------
(* Submit transactions: outcome and write set as a function of the ledger,  *)
(* the arguments, and what the peer reads from its wall clock (now for      *)
(* Date.now(), stamp for new Date()) and from Math.random() (rnd)           *)

\* a serialisation that leaves the misc member out
ProductBufferWithoutMisc(product) ==
    JSONstringify(Obj(SelectSeq(Val(product), LAMBDA m : m[1] # "misc")))

\* Buffer.from(JSON.stringify(product)) of createProduct
ProductBuffer(product) == JSONstringify(product)

\* createProduct, the notification's putState failing or not
createProductOn(L, productJson, now, stamp, rnd, putStateFails) ==
    LET product == JSONparse(productJson)
        valid == validateProductData(product)
        id == Val(Get(product, "id"))
        name == Val(Get(product, "name"))
        origin == Get(product, "placeOfOrigin")
    IN  IF valid # OK THEN Result(valid, <<>>)
        ELSE IF productExists(L, id) THEN Result(AlreadyExists, <<>>)
        ELSE ThenNotify(
                <<<<id, ProductBuffer(product)>>>>,
                createNotification(
                     Notification(NotificationId(now, rnd), id, "created",
                                  <<"Product ">> \o name \o <<" created at ">> \o Val(origin),
                                  ToISOString(stamp), origin, "info"),
                     putStateFails))

createProduct(L, productJson, now, stamp, rnd) ==
    createProductOn(L, productJson, now, stamp, rnd, FALSE)

\* a shipment that keeps only the latest entry of the history
ShippedProductLatestOnly(product, newLocation, arrivalDate) ==
    LET ld == Get(product, "locationData")
        cur == Get(ld, "current")
        entry == ProductLocationEntry(Get(cur, "arrivalDate"), Get(cur, "location"))
        ld1 == Set(ld, "previous", Arr(<<entry>>))
        cur1 == Set(Set(cur, "arrivalDate", arrivalDate), "location", newLocation)
    IN  Set(product, "locationData", Set(ld1, "current", cur1))

\* the product after previous.push(new ProductLocationEntry(current)) and the
\* two assignments to current, for a product that has both
ShippedProduct(product, newLocation, arrivalDate) ==
    LET ld == Get(product, "locationData")
        prev == Get(ld, "previous")
        cur == Get(ld, "current")
        entry == ProductLocationEntry(Get(cur, "arrivalDate"), Get(cur, "location"))
        ld1 == Set(ld, "previous", Arr(Append(Val(prev), entry)))
        cur1 == Set(Set(cur, "arrivalDate", arrivalDate), "location", newLocation)
    IN  Set(product, "locationData", Set(ld1, "current", cur1))

\* a shipProductTo that looks at its arguments before it looks for the product
shipProductToArgumentsFirst(L, productId, newLocation, arrivalDate, now, stamp, rnd, putStateFails) ==
    IF requireFieldThrows(newLocation) THEN Result(FieldRequired("newLocation"), <<>>)
    ELSE IF requireFieldThrows(arrivalDate) THEN Result(FieldRequired("arrivalDate"), <<>>)
    ELSE IF ~isValidDate(arrivalDate) THEN Result(InvalidDate("arrival"), <<>>)
    ELSE Result(NotFound, <<>>)

\* shipProductTo, the notification's putState failing or not
shipProductToOn(L, productId, newLocation, arrivalDate, now, stamp, rnd, putStateFails) ==
    IF ~productExists(L, productId) THEN Result(NotFound, <<>>)
    ELSE IF requireFieldThrows(newLocation) THEN Result(FieldRequired("newLocation"), <<>>)
    ELSE IF requireFieldThrows(arrivalDate) THEN Result(FieldRequired("arrivalDate"), <<>>)
    ELSE IF ~isValidDate(arrivalDate) THEN Result(InvalidDate("arrival"), <<>>)
    ELSE
        LET product == readProduct(L, productId)
            ld == Get(product, "locationData")
            prev == Get(ld, "previous")
            cur == Get(ld, "current")
            name == Get(product, "name")
        IN  IF IsNullish(ld) \/ ~IsArr(prev) \/ ~IsObj(cur) THEN Result(TypeError, <<>>)
            ELSE
                LET shipped == ShippedProduct(product, newLocation, arrivalDate)
                    shownName == IF IsStr(name) THEN Val(name) ELSE <<"undefined">>
                IN  ThenNotify(
                        <<<<productId, JSONstringify(shipped)>>>>,
                        createNotification(
                             Notification(NotificationId(now, rnd), productId, "shipped",
                                          <<"Product ">> \o shownName \o <<" shipped to ">>
                                              \o Val(newLocation),
                                          ToISOString(stamp), newLocation, "info"),
                             putStateFails))

shipProductTo(L, productId, newLocation, arrivalDate, now, stamp, rnd) ==
    shipProductToOn(L, productId, newLocation, arrivalDate, now, stamp, rnd, FALSE)

\* a severity with the warning threshold at 70
SeverityFrom70(score) ==
    IF Val(score) >= 80 THEN "info"
    ELSE IF Val(score) >= 70 THEN "warning" ELSE "error"

\* qualityRecord.score >= 80 ? 'info' : qualityRecord.score >= 60 ? 'warning' : 'error'
Severity(score) ==
    IF Val(score) >= 80 THEN "info"
    ELSE IF Val(score) >= 60 THEN "warning" ELSE "error"

\* addQualityRecord, the notification's putState failing or not
addQualityRecordOn(L, productId, qualityData, keyNow, now, stamp, rnd, putStateFails) ==
    IF ~productExists(L, productId) THEN Result(NotFound, <<>>)
    ELSE
        LET qualityRecord == JSONparse(qualityData)
            valid == validateQualityRecord(qualityRecord)
            score == Get(qualityRecord, "score")
            severity == Severity(score)
        IN  IF valid # OK THEN Result(valid, <<>>)
            ELSE ThenNotify(
                    <<<<QualityKey(productId, keyNow), JSONstringify(qualityRecord)>>>>,
                    createNotification(
                         Notification(NotificationId(now, rnd), productId, "quality_check",
                                      <<"Quality inspection completed for ">> \o productId
                                          \o <<". Score: ">> \o NumToString(Val(score))
                                          \o <<"/100">>,
                                      ToISOString(stamp), Get(qualityRecord, "location"),
                                      severity),
                         putStateFails))

addQualityRecord(L, productId, qualityData, keyNow, now, stamp, rnd) ==
    addQualityRecordOn(L, productId, qualityData, keyNow, now, stamp, rnd, FALSE)

\* an acknowledgement that writes back the flag alone
AcknowledgedFlagOnly(notification) == Obj(<< <<"acknowledged", Bool(TRUE)>> >>)

\* notification.acknowledged = true
Acknowledged(notification) == Set(notification, "acknowledged", Bool(TRUE))

acknowledgeNotification(L, notificationId) ==
    IF ~Stored(L, notificationId) THEN Result(NotificationNotFound, <<>>)
    ELSE
        LET notification == JSONparse(L[notificationId])
        IN  Result(OK, <<<<notificationId, JSONstringify(Acknowledged(notification))>>>>)

-----------------------------------------------------------------------------
(* Evaluate transactions: outcome and returned value as a function of the   *)
(* ledger                                                                   *)

Return(err, ret) == [err |-> err, ret |-> ret]

getProduct(L, productId) ==
    IF ~productExists(L, productId) THEN Return(NotFound, Undefined)
    ELSE Return(OK, readProduct(L, productId))

\* the componentProducts of getProductWithHistory: the children that
\* readProduct finds, in the order of the ids; an id that is not a string or
\* is not stored throws inside the try and is skipped
ComponentProducts(L, ids) ==
    LET found == SelectSeq(ids, LAMBDA id : IsStr(id) /\ Stored(L, Val(id)))
    IN  [i \in 1..Len(found) |-> readProduct(L, Val(found[i]))]

\* getProductWithHistory(ctx, productId), for a stored componentProductIds that
\* is a list or is absent: for...of over undefined or null is a TypeError
getProductWithHistory(L, productId) ==
    IF ~productExists(L, productId) THEN Return(NotFound, Undefined)
    ELSE
        LET product == readProduct(L, productId)
            ids == Get(product, "componentProductIds")
        IN  IF ~IsArr(ids) THEN Return(TypeError, Undefined)
            ELSE Return(OK, [product |-> product,
                             componentProducts |-> ComponentProducts(L, Val(ids))])

\* executeQuery(ctx, queryString) for an $exists selector
executeQuery(L, field) ==
    LET keys == QueryExists(L, field)
    IN  [i \in 1..Len(keys) |-> JSONparse(L[keys[i]])]

queryAllProducts(L) == executeQuery(L, "id")

DefaultLimit == 50

\* a sort that leaves the sequence as it is
Unsorted(s, before) == s

\* a stable sort (Array.prototype.sort; the order a sorted query returns):
\* before[i][j] when s[i] goes strictly before s[j], a strict weak order.  An
\* element's place is the number of elements that precede it.
StableSort(s, before) ==
    LET place(i) == 1 + Cardinality({j \in 1..Len(s) :
                            \/ before[j][i]
                            \/ ~before[i][j] /\ j < i})
    IN  [k \in 1..Len(s) |-> s[CHOOSE i \in 1..Len(s) : place(i) = k]]

\* getNotifications(ctx, limit): the documents that have a type, by
\* timestamp descending, at most limit of them (limit = 0: no argument)
getNotifications(L, limit) ==
    LET queryLimit == IF limit # 0 THEN limit ELSE DefaultLimit
        found == executeQuery(L, "type")
        timestamp == [i \in 1..Len(found) |-> Val(Get(found[i], "timestamp"))]
        sorted == StableSort(found,
                          [i \in 1..Len(found) |-> [j \in 1..Len(found) |->
                              LexLess(timestamp[j], timestamp[i])]])
    IN  SubSeq(sorted, 1, IF Len(sorted) < queryLimit THEN Len(sorted) ELSE queryLimit)

\* getQualityRecords(ctx, productId): the range of the product's quality
\* keys, by timestamp descending
getQualityRecords(L, productId) ==
    LET startKey == <<"QUALITY_">> \o productId \o <<"_">>
        endKey == <<"QUALITY_">> \o productId \o <<"_", "uFFFF">>
        keys == GetStateByRange(L, startKey, endKey)
        qualityRecords == [i \in 1..Len(keys) |-> JSONparse(L[keys[i]])]
        time == [i \in 1..Len(keys) |-> GetTime(Val(Get(qualityRecords[i], "timestamp")))]
    IN  StableSort(qualityRecords,
                [i \in 1..Len(keys) |-> [j \in 1..Len(keys) |-> time[i] > time[j]]])

\* getAllQualityRecords(ctx): the documents that have an inspector
getAllQualityRecords(L) == executeQuery(L, "inspector")

SecondsPerDay == 86400
OnTimeDays == 7
MonthsKept == 6
ActiveBelow == 3
CompletedFrom == 2
DefaultOnTimeDeliveryRate == 100
\* 95.0, in tenths
DefaultQualityScore == 950

RECURSIVE SumTo(_, _)
\* f[1] + ... + f[n]
SumTo(f, n) == IF n = 0 THEN 0 ELSE SumTo(f, n - 1) + f[n]

\* what the loop body of getAnalyticsData throws for a product: a property
\* read of an undefined locationData, current or previous is a TypeError,
\* toISOString of an invalid production date a RangeError
AnalyticsFault(product) ==
    LET locationData == Get(product, "locationData")
        current == Get(locationData, "current")
        productionDate == Get(product, "productionDate")
    IN  IF IsNullish(locationData) \/ IsNullish(current) THEN TypeError
        ELSE IF ~IsStr(productionDate) \/ IsNaNDate(Val(productionDate)) THEN RangeError
        ELSE IF IsNullish(Get(locationData, "previous")) THEN TypeError
        ELSE OK

\* product.locationData.previous.length
HistoryLength(product) ==
    LET previous == Get(Get(product, "locationData"), "previous")
    IN  IF IsArr(previous) THEN Len(Val(previous)) ELSE 0

RECURSIVE monthlyData(_, _)
\* monthlyData after the first n products of the loop: a product opens the
\* bucket of its production month; its shipment is counted only when the
\* bucket of its arrival month is open by then
monthlyData(products, n) ==
    IF n = 0 THEN <<>>
    ELSE LET before == monthlyData(products, n - 1)
             product == products[n]
             productionMonth == YearMonth(Val(Get(product, "productionDate")))
             opened == [month \in DOMAIN before \cup {productionMonth} |->
                          IF month \in DOMAIN before THEN before[month]
                          ELSE [products |-> 0, shipments |-> 0]]
             counted == [opened EXCEPT ![productionMonth].products = @ + 1]
             current == Get(Get(product, "locationData"), "current")
             shipmentMonth == YearMonth(Val(Get(current, "arrivalDate")))
         IN  IF HistoryLength(product) > 0 /\ shipmentMonth \in DOMAIN counted
             THEN [counted EXCEPT ![shipmentMonth].shipments = @ + 1]
             ELSE counted

RECURSIVE SortMonths(_)
\* the months in ascending order
SortMonths(S) ==
    IF S = {} THEN <<>>
    ELSE LET first == CHOOSE m \in S : \A n \in S : MonthNumber(m) <= MonthNumber(n)
         IN  <<first>> \o SortMonths(S \ {first})

\* a rate that answers only defaults, whatever was counted
AnalyticsOfNothing(products, qualityRecords, westOfUTC) ==
    [totalProducts |-> 0, activeShipments |-> 0, completedDeliveries |-> 0,
     averageDeliveryTime |-> 0, onTimeDeliveryRate |-> 0, qualityScore |-> 0,
     categoryStats |-> <<>>, locationStats |-> <<>>, monthlyTrends |-> <<>>]

\* the AnalyticsData of products none of which faults.  Times are in whole
\* seconds plus milliseconds; Math.round(x) is the floor of x + 1/2;
\* qualityScore is in tenths.
Analytics(products, qualityRecords, westOfUTC) ==
    LET n == Len(products)
        category == [i \in 1..n |-> Val(Get(products[i], "category"))]
        current == [i \in 1..n |-> Get(Get(products[i], "locationData"), "current")]
        location == [i \in 1..n |-> Val(Get(current[i], "location"))]
        moved == {i \in 1..n : HistoryLength(products[i]) > 0}
        firstArrival == [i \in 1..n |->
            IF i \in moved
            THEN Val(Get(Val(Get(Get(products[i], "locationData"), "previous"))[1],
                         "arrivalDate"))
            ELSE Val(Get(current[i], "arrivalDate"))]
        seconds == [i \in 1..n |->
            GetTime(Val(Get(current[i], "arrivalDate"))) - GetTime(firstArrival[i])]
        millis == [i \in 1..n |->
            GetMillis(Val(Get(current[i], "arrivalDate"))) - GetMillis(firstArrival[i])]
        deliveryCount == Cardinality(moved)
        onTimeDeliveries == Cardinality({i \in moved :
            \/ seconds[i] < OnTimeDays * SecondsPerDay
            \/ seconds[i] = OnTimeDays * SecondsPerDay /\ millis[i] <= 0})
        totalSeconds == SumTo([i \in 1..n |-> IF i \in moved THEN seconds[i] ELSE 0], n)
        totalMillis == SumTo([i \in 1..n |-> IF i \in moved THEN millis[i] ELSE 0], n)
        qualityCount == Len(qualityRecords)
        totalQualityScore ==
            SumTo([i \in 1..qualityCount |-> Val(Get(qualityRecords[i], "score"))],
                  qualityCount)
        data == monthlyData(products, n)
        months == SortMonths(DOMAIN data)
        kept == SubSeq(months,
                       IF Len(months) > MonthsKept THEN Len(months) - MonthsKept + 1 ELSE 1,
                       Len(months))
    IN  [totalProducts |-> n,
         activeShipments |-> Cardinality({i \in 1..n :
             /\ HistoryLength(products[i]) > 0
             /\ HistoryLength(products[i]) < ActiveBelow}),
         completedDeliveries |-> Cardinality({i \in 1..n :
             HistoryLength(products[i]) >= CompletedFrom}),
         averageDeliveryTime |->
             IF deliveryCount > 0
             THEN (2 * totalSeconds + deliveryCount * SecondsPerDay
                     + ((2 * totalMillis) \div 1000))
                  \div (2 * deliveryCount * SecondsPerDay)
             ELSE 0,
         onTimeDeliveryRate |->
             IF deliveryCount > 0
             THEN (200 * onTimeDeliveries + deliveryCount) \div (2 * deliveryCount)
             ELSE DefaultOnTimeDeliveryRate,
         qualityScore |->
             IF qualityCount > 0
             THEN (20 * totalQualityScore + qualityCount) \div (2 * qualityCount)
             ELSE DefaultQualityScore,
         categoryStats |-> [c \in {category[i] : i \in 1..n} |->
                              Cardinality({i \in 1..n : category[i] = c})],
         locationStats |-> [l \in {location[i] : i \in 1..n} |->
                              Cardinality({i \in 1..n : location[i] = l})],
         monthlyTrends |-> [k \in 1..Len(kept) |->
                              [month |-> ShortMonth(kept[k], westOfUTC),
                               products |-> data[kept[k]].products,
                               shipments |-> data[kept[k]].shipments]]]

\* getAnalyticsData(ctx): the loop stops at the first product that faults
getAnalyticsData(L, westOfUTC) ==
    LET products == queryAllProducts(L)
        faulty == {i \in 1..Len(products) : AnalyticsFault(products[i]) # OK}
    IN  IF faulty # {}
        THEN Return(AnalyticsFault(products[CHOOSE i \in faulty : \A j \in faulty : i <= j]),
                    Undefined)
        ELSE Return(OK, Analytics(products, getAllQualityRecords(L), westOfUTC))

-----------------------------------------------------------------------------
(* Inputs *)

ProductIds == {<<"a">>, <<"a", "_", "b">>}

OneProduct == {<<"a">>}

RandomSuffixes == {<<"x">>, <<"y">>}

IsoDate(day, time) == <<day, "T", time>>

LocationData(withPrevious) ==
    Obj(<< <<"current", Obj(<< <<"arrivalDate", Str(IsoDate("2021-06-30", "18:00:58.511Z"))>>,
                               <<"location", Str(<<"Markham Farm">>)>> >>)>> >>
        \o (IF withPrevious THEN << <<"previous", Arr(<<>>)>> >> ELSE <<>>))

\* the product of the contract's tests
TestProduct(id, name, locationData) ==
    Obj(<< <<"id", Str(id)>>,
           <<"barcode", Str(<<"1234567890">>)>>,
           <<"batchQuantity", Num(1000)>>,
           <<"category", Str(<<"Fruits">>)>>,
           <<"componentProductIds", Arr(<<>>)>>,
           <<"expirationDate", Str(IsoDate("2022-06-24", "18:25:43.511Z"))>>,
           <<"misc", Str(<<"test-data">>)>>,
           <<"name", Str(name)>>,
           <<"placeOfOrigin", Str(<<"Markham, ON, Canada">>)>>,
           <<"productionDate", Str(IsoDate("2021-06-24", "18:25:43.511Z"))>>,
           <<"unitPrice", Str(<<"$5.00">>)>>,
           <<"unitQuantity", Num(300)>>,
           <<"unitQuantityType", Str(<<"mg">>)>>,
           <<"variety", Null>>,
           <<"locationData", locationData>> >>)

ProductPayloads ==
    UNION {{TestProduct(id, <<"Apples">>, LocationData(TRUE)),
            TestProduct(id, <<"Pears">>, LocationData(FALSE)),
            TestProduct(id, <<>>, LocationData(TRUE))} : id \in ProductIds}

\* (newLocation, arrivalDate) arguments of shipProductTo: two valid pairs, an
\* empty location, a date without a time of day
ShipArguments ==
    {<<Str(<<"Warehouse A">>), Str(IsoDate("2021-07-01", "18:00:58.511Z"))>>,
     <<Str(<<"Warehouse B">>), Str(IsoDate("2021-06-26", "00:00:00.000Z"))>>,
     <<Str(<<>>), Str(IsoDate("2021-07-01", "18:00:58.511Z"))>>,
     <<Str(<<"Warehouse A">>), Str(<<"2021-07-01">>)>>}

\* the quality record the gateway builds
QualityRecord(productId, score, timestamp, withLocation) ==
    Obj(<< <<"productId", Str(productId)>>,
           <<"inspector", Str(<<"inspector1">>)>>,
           <<"score", Num(score)>>,
           <<"notes", Str(<<"checked">>)>>,
           <<"timestamp", Str(timestamp)>> >>
        \o (IF withLocation THEN << <<"location", Str(<<"Lab">>)>> >> ELSE <<>>))

QualityPayloads(productId) ==
    {QualityRecord(productId, 45, IsoDate("2021-06-26", "10:00:00.000Z"), TRUE),
     QualityRecord(productId, 90, IsoDate("2021-06-27", "10:00:00.000Z"), FALSE),
     QualityRecord(productId, 101, IsoDate("2021-06-26", "10:00:00.000Z"), TRUE)}

-----------------------------------------------------------------------------
(* The state machine *)

NoTransaction == [op |-> "none", err |-> OK]

\* lockedUntil: null, or a time
NullTime == [set |-> FALSE, at |-> 0]
Time(t) == [set |-> TRUE, at |-> t]

NoResponse == [status |-> 0, token |-> FALSE]

\* before the first call of connectToNetwork
NoExecute == [calls |-> 0, outcome |-> "none", probes |-> 0]

NoRequest == [route |-> "none", role |-> "none", status |-> 0, submitted |-> FALSE]

Init ==
    /\ wall = 0
    /\ account = [failedAttempts |-> 0, lockedUntil |-> NullTime]
    /\ logins = [correct |-> 0, wrong |-> 0]
    /\ nlogins = 0
    /\ answer = NoResponse
    /\ lockout = NullTime
    /\ request = NoRequest
    /\ breaker = [state |-> "CLOSED", failureCount |-> 0, lastFailureTime |-> NullTime]
    /\ connections = [pooled |-> FALSE, opening |-> 0]
    /\ executed = NoExecute
    /\ ledger = <<>>
    /\ clock = 0
    /\ nops = 0
    /\ last = NoTransaction
    /\ created = {}
    /\ version = <<>>
    /\ pending = <<>>

\* the transaction commits its write set, or nothing when it threw; it runs
\* alone, from its reads to its commit, so the versions of the keys play no
\* part
Commit(op, result) ==
    /\ nops < MaxOps
    /\ ledger' = ApplyWrites(ledger, result.writes)
    /\ nops' = nops + 1
    /\ last' = [op |-> op, err |-> result.err]
    /\ UNCHANGED <<clock, version, pending>>
    /\ UNCHANGED gatewayVars

\* the wall clock advances between transactions; a transaction runs within
\* one millisecond, so all that it reads from the clock is the same instant
Tick ==
    /\ clock < MaxClock
    /\ clock' = clock + 1
    /\ UNCHANGED <<ledger, nops, last, created, version, pending>>
    /\ UNCHANGED allGatewayVars

\* the id of a product payload
PayloadId(productJson) == Val(Get(JSONparse(productJson), "id"))

\* whether the putState of a notification throws: never, or sometimes
NoFaults == {FALSE}
Faults == {FALSE, TRUE}

CreateProductOf(ids, faults) ==
    \E productJson \in ProductPayloads, rnd \in RandomSuffixes, putStateFails \in faults :
        LET result == createProductOn(ledger, productJson, clock, clock, rnd, putStateFails)
        IN  /\ PayloadId(productJson) \in ids
            /\ Commit("createProduct", result)
            /\ created' = IF result.err = OK
                          THEN created \cup {PayloadId(productJson)}
                          ELSE created

ShipProductToOf(ids, faults) ==
    \E productId \in ids, args \in ShipArguments, rnd \in RandomSuffixes,
       putStateFails \in faults :
        /\ Commit("shipProductTo",
                  shipProductToOn(ledger, productId, args[1], args[2], clock, clock, rnd,
                                  putStateFails))
        /\ UNCHANGED created

AddQualityRecordOf(ids, faults) ==
    \E productId \in ids, rnd \in RandomSuffixes, putStateFails \in faults :
    \E qualityData \in QualityPayloads(productId) :
        /\ Commit("addQualityRecord",
                  addQualityRecordOn(ledger, productId, qualityData, clock, clock, clock, rnd,
                                     putStateFails))
        /\ UNCHANGED created

\* a caller may acknowledge any stored key, or an id that is not stored
AcknowledgeIds(ids) == DOMAIN ledger \cup ids

AcknowledgeNotificationOf(ids) ==
    \E notificationId \in AcknowledgeIds(ids) :
        /\ Commit("acknowledgeNotification", acknowledgeNotification(ledger, notificationId))
        /\ UNCHANGED created

CreateProduct == CreateProductOf(ProductIds, NoFaults) /\ UNCHANGED request
ShipProductTo == ShipProductToOf(ProductIds, NoFaults) /\ UNCHANGED request
AddQualityRecord == AddQualityRecordOf(ProductIds, NoFaults) /\ UNCHANGED request
AcknowledgeNotification == AcknowledgeNotificationOf(ProductIds) /\ UNCHANGED request

\* the contract called for the products of ProductIds
Next ==
    \/ Tick
    \/ CreateProduct
    \/ ShipProductTo
    \/ AddQualityRecord
    \/ AcknowledgeNotification

Spec == Init /\ [][Next]_vars

CreateOne == CreateProductOf(OneProduct, NoFaults) /\ UNCHANGED request
ShipOne == ShipProductToOf(OneProduct, NoFaults) /\ UNCHANGED request
AddQualityOne == AddQualityRecordOf(OneProduct, NoFaults) /\ UNCHANGED request
AcknowledgeOne == AcknowledgeNotificationOf(OneProduct) /\ UNCHANGED request

\* the contract called for a single product
NextOne ==
    \/ Tick
    \/ CreateOne
    \/ ShipOne
    \/ AddQualityOne
    \/ AcknowledgeOne

SpecOne == Init /\ [][NextOne]_vars

\* products created and shipped, for a single product
NextCreate ==
    \/ Tick
    \/ CreateOne
    \/ ShipOne

SpecCreate == Init /\ [][NextCreate]_vars

CreateFaulty == CreateProductOf(OneProduct, Faults) /\ UNCHANGED request
ShipFaulty == ShipProductToOf(OneProduct, Faults) /\ UNCHANGED request
AddQualityFaulty == AddQualityRecordOf(OneProduct, Faults) /\ UNCHANGED request

\* products and quality records written for a single product, on a peer
\* where the putState of a notification may throw
NextFaulty ==
    \/ Tick
    \/ CreateFaulty
    \/ ShipFaulty
    \/ AddQualityFaulty

SpecFaulty == Init /\ [][NextFaulty]_vars

\* Overlapping invocations.  A submit transaction is first simulated on the
\* world state (its getState calls give the read set, its putState calls the
\* write set), and committed later; in between, other transactions are
\* simulated and committed.

MVCCReadConflict == <<"MVCCReadConflict">>

\* the version a getState of the key reads: 0 for a key never written
ReadVersion(key) == IF key \in DOMAIN version THEN version[key] ELSE 0

\* a commit that validates nothing
ValidatesNothing(tx) == TRUE

\* commit-time conflict detection: every key read is still at the version
\* that was read
Validates(tx) == \A read \in tx.reads : ReadVersion(read[1]) = read[2]

\* the versions after the writes are committed
Bump(writes) ==
    LET written == {writes[i][1] : i \in 1..Len(writes)}
    IN  [key \in DOMAIN version \cup written |->
            IF key \in written THEN ReadVersion(key) + 1 ELSE version[key]]

\* the invocation is simulated: a transaction that throws is answered at
\* once, another joins the transactions to commit.  productExists and
\* readProduct read the key of the product and no other.
Endorse(op, productId, result) ==
    /\ nops < MaxOps
    /\ nops' = nops + 1
    /\ IF result.err = OK
       THEN /\ pending' = Append(pending, [op |-> op, productId |-> productId,
                                           reads |-> {<<productId, ReadVersion(productId)>>},
                                           writes |-> result.writes])
            /\ UNCHANGED last
       ELSE /\ last' = [op |-> op, err |-> result.err]
            /\ UNCHANGED pending
    /\ UNCHANGED <<ledger, clock, created, version>>
    /\ UNCHANGED allGatewayVars

EndorseCreateProduct ==
    \E productJson \in ProductPayloads, rnd \in RandomSuffixes :
        /\ PayloadId(productJson) \in OneProduct
        /\ Endorse("createProduct", PayloadId(productJson),
                   createProduct(ledger, productJson, clock, clock, rnd))

EndorseShipProductTo ==
    \E productId \in OneProduct, args \in ShipArguments, rnd \in RandomSuffixes :
        Endorse("shipProductTo", productId,
                shipProductTo(ledger, productId, args[1], args[2], clock, clock, rnd))

\* one of the endorsed transactions is ordered next: its writes are
\* committed if its reads are still valid, and dropped otherwise
CommitEndorsed ==
    \E i \in 1..Len(pending) :
        LET tx == pending[i]
        IN  /\ pending' = SubSeq(pending, 1, i - 1) \o SubSeq(pending, i + 1, Len(pending))
            /\ IF Validates(tx)
               THEN /\ ledger' = ApplyWrites(ledger, tx.writes)
                    /\ version' = Bump(tx.writes)
                    /\ last' = [op |-> tx.op, err |-> OK]
                    /\ created' = IF tx.op = "createProduct"
                                  THEN created \cup {tx.productId} ELSE created
               ELSE /\ last' = [op |-> tx.op, err |-> MVCCReadConflict]
                    /\ UNCHANGED <<ledger, version, created>>
            /\ UNCHANGED <<clock, nops>>
            /\ UNCHANGED allGatewayVars

\* a single product created and shipped by invocations that overlap
NextOverlapping ==
    \/ Tick
    \/ EndorseCreateProduct
    \/ EndorseShipProductTo
    \/ CommitEndorsed

SpecOverlapping == Init /\ [][NextOverlapping]_vars

-----------------------------------------------------------------------------
(* The gateway: login *)

MaxLogins == 6
MaxLockouts == 2

MAX_FAILED_ATTEMPTS == 5
LOCKOUT_DURATION == 15 * 60 * 1000

\* the account of the model, a name that is no account, no name
Usernames == {"admin", "nobody", ""}

\* the password given: the account's, another, none
Passwords == {"correct", "wrong", ""}

Response(status) == [status |-> status, token |-> FALSE]

\* res.json({token, ...}): status 200
TokenResponse == [status |-> 200, token |-> TRUE]

\* user.lockedUntil && user.lockedUntil > Date.wall()
IsLocked(user, t) == user.lockedUntil.set /\ user.lockedUntil.at > t

\* a lock check that never finds the account locked
IsLockedNever(user, t) == FALSE

\* the account after a password that does not match; it locks at
\* MAX_FAILED_ATTEMPTS
FailedAttempt(user, t) ==
    LET failedAttempts == user.failedAttempts + 1
    IN  [failedAttempts |-> failedAttempts,
         lockedUntil |-> IF failedAttempts >= MAX_FAILED_ATTEMPTS
                         THEN Time(t + LOCKOUT_DURATION)
                         ELSE user.lockedUntil]

\* the wall clock advances by a third of the lockout or by the lockout
Advance ==
    \E d \in {LOCKOUT_DURATION \div 3, LOCKOUT_DURATION} :
        /\ wall + d <= MaxLockouts * LOCKOUT_DURATION
        /\ wall' = wall + d
        /\ UNCHANGED <<account, logins, nlogins, answer, lockout, request>>
        /\ UNCHANGED contractVars
        /\ UNCHANGED breakerVars

\* login, from the request to the await of bcrypt.compare: the request is
\* answered at once when a field is missing, the user is unknown or the
\* account is locked, and waits for the comparison otherwise
LoginArrives ==
    \E username \in Usernames, password \in Passwords :
        /\ nlogins < MaxLogins
        /\ nlogins' = nlogins + 1
        /\ IF username = "" \/ password = ""
           THEN answer' = Response(400) /\ UNCHANGED logins
           ELSE IF username # "admin"
           THEN answer' = Response(401) /\ UNCHANGED logins
           ELSE IF IsLocked(account, wall)
           THEN answer' = Response(423) /\ UNCHANGED logins
           ELSE /\ logins' = IF password = "correct"
                             THEN [logins EXCEPT !.correct = @ + 1]
                             ELSE [logins EXCEPT !.wrong = @ + 1]
                /\ UNCHANGED answer
        /\ UNCHANGED <<wall, account, lockout, request>>
        /\ UNCHANGED contractVars
        /\ UNCHANGED breakerVars

\* login, after bcrypt.compare has resolved false
LoginFails ==
    /\ logins.wrong > 0
    /\ logins' = [logins EXCEPT !.wrong = @ - 1]
    /\ account' = FailedAttempt(account, wall)
    /\ IF account'.failedAttempts >= MAX_FAILED_ATTEMPTS
       THEN answer' = Response(423) /\ lockout' = account'.lockedUntil
       ELSE answer' = Response(401) /\ UNCHANGED lockout
    /\ UNCHANGED <<wall, nlogins, request>>
    /\ UNCHANGED contractVars
    /\ UNCHANGED breakerVars

\* login, after bcrypt.compare has resolved true: the attempts are reset and
\* the token is signed and returned
LoginSucceeds ==
    /\ logins.correct > 0
    /\ logins' = [logins EXCEPT !.correct = @ - 1]
    /\ account' = [failedAttempts |-> 0, lockedUntil |-> NullTime]
    /\ answer' = TokenResponse
    /\ UNCHANGED <<wall, nlogins, lockout, request>>
    /\ UNCHANGED contractVars
    /\ UNCHANGED breakerVars

\* the login endpoint under requests that overlap
NextLogin ==
    \/ Advance
    \/ LoginArrives
    \/ LoginFails
    \/ LoginSucceeds

SpecLogin == Init /\ [][NextLogin]_vars

-----------------------------------------------------------------------------
(* The gateway: protected routes *)

ROLES == {"admin", "manager", "employee", "client"}

ROLE_PERMISSIONS(role) ==
    CASE role = "admin" -> {"create", "read", "update", "delete", "ship", "quality"}
      [] role = "manager" -> {"create", "read", "update", "ship", "quality"}
      [] role = "employee" -> {"read", "ship"}
      [] role = "client" -> {"read"}
      [] OTHER -> {}

\* who sends a request: the bearer of a token of a role, or of no valid token
Callers == ROLES \cup {"anonymous"}

\* the permissions the middleware of a route requires after verifyToken
RequiredPermissions(route) ==
    CASE route = "/createProduct" -> {"create"}
      [] route = "/shipProduct" -> {"ship"}
      [] route = "/addQualityRecord" -> {"quality"}
      [] route = "/acknowledgeNotification" -> {}

\* verifyToken, then requirePermission for each permission of the route:
\* the status of the rejection, 0 when the request reaches the handler
Middleware(route, role) ==
    IF role \notin ROLES THEN 401
    ELSE IF ~(RequiredPermissions(route) \subseteq ROLE_PERMISSIONS(role)) THEN 403
    ELSE 0

\* the response of the handler of a route to the outcome of its transaction
HandlerStatus(route, err) ==
    IF err = OK THEN 200
    ELSE IF route = "/createProduct" /\ err = AlreadyExists THEN 409
    ELSE IF route = "/shipProduct" /\ err = NotFound THEN 404
    ELSE 500

\* the request is answered without a transaction: by the middleware, or by
\* the handler when the body lacks a field it requires (400)
Refused(route) ==
    /\ \E role \in Callers, bodyOk \in BOOLEAN :
          /\ Middleware(route, role) # 0 \/ ~bodyOk
          /\ request' = [route |-> route, role |-> role,
                         status |-> IF Middleware(route, role) # 0
                                    THEN Middleware(route, role) ELSE 400,
                         submitted |-> FALSE]
    /\ UNCHANGED contractVars
    /\ UNCHANGED gatewayVars

\* the request reaches the handler, which submits the transaction
Handled(route, role) ==
    /\ Middleware(route, role) = 0
    /\ request' = [route |-> route, role |-> role,
                   status |-> HandlerStatus(route, last'.err), submitted |-> TRUE]

PostCreateProduct ==
    \/ Refused("/createProduct")
    \/ /\ CreateProductOf(OneProduct, NoFaults)
       /\ \E role \in Callers : Handled("/createProduct", role)

PostShipProduct ==
    \/ Refused("/shipProduct")
    \/ /\ ShipProductToOf(OneProduct, NoFaults)
       /\ \E role \in Callers : Handled("/shipProduct", role)

PostAddQualityRecord ==
    \/ Refused("/addQualityRecord")
    \/ /\ AddQualityRecordOf(OneProduct, NoFaults)
       /\ \E role \in Callers : Handled("/addQualityRecord", role)

PostAcknowledgeNotification ==
    \/ Refused("/acknowledgeNotification")
    \/ /\ AcknowledgeNotificationOf(OneProduct)
       /\ \E role \in Callers : Handled("/acknowledgeNotification", role)

\* the contract called through the protected routes of the gateway
NextGateway ==
    \/ Tick
    \/ PostCreateProduct
    \/ PostShipProduct
    \/ PostAddQualityRecord
    \/ PostAcknowledgeNotification

SpecGateway == Init /\ [][NextGateway]_vars

-----------------------------------------------------------------------------
(* The gateway: the connection circuit breaker *)

MaxConnects == 8
MaxWaits == 4

\* constructor(threshold = 5, timeout = 60000)
failureThreshold == 5
timeout == 60000

\* onSuccess()
onSuccess(cb) == [cb EXCEPT !.failureCount = 0, !.state = "CLOSED"]

\* onFailure() at Date.now() = t
onFailure(cb, t) ==
    [cb EXCEPT !.failureCount = @ + 1,
               !.lastFailureTime = Time(t),
               !.state = IF cb.failureCount + 1 >= failureThreshold THEN "OPEN" ELSE @]

\* the test of execute on an OPEN breaker: the timeout has passed
TimedOut(cb, t) == t - cb.lastFailureTime.at > timeout

\* execute throws 'Circuit breaker is OPEN' before it invokes the operation
Rejects(cb, t) == cb.state = "OPEN" /\ ~TimedOut(cb, t)

\* time passes: half the timeout
Wait ==
    /\ wall + timeout \div 2 <= MaxWaits * (timeout \div 2)
    /\ wall' = wall + timeout \div 2
    /\ UNCHANGED <<account, logins, nlogins, answer, lockout, request, breakerVars>>
    /\ UNCHANGED contractVars

\* what connectToNetwork leaves alone
OnlyConnects ==
    /\ UNCHANGED <<wall, account, logins, nlogins, answer, lockout, request>>
    /\ UNCHANGED contractVars

\* connectToNetwork finds the connection in the pool: execute is not called
ConnectReuses ==
    /\ OnlyConnects
    /\ executed.calls < MaxConnects
    /\ connections.pooled
    /\ executed' = [executed EXCEPT !.calls = @ + 1, !.outcome = "pooled"]
    /\ UNCHANGED <<breaker, connections>>

\* connectToNetwork calls execute, which throws without invoking the operation
ConnectRejected ==
    /\ OnlyConnects
    /\ executed.calls < MaxConnects
    /\ ~connections.pooled
    /\ Rejects(breaker, wall)
    /\ executed' = [executed EXCEPT !.calls = @ + 1, !.outcome = "rejected"]
    /\ UNCHANGED <<breaker, connections>>

\* connectToNetwork calls execute, which turns an OPEN breaker HALF_OPEN and
\* invokes createNewConnection: up to the await of the operation
ConnectInvokes ==
    /\ OnlyConnects
    /\ executed.calls < MaxConnects
    /\ ~connections.pooled
    /\ ~Rejects(breaker, wall)
    /\ breaker' = IF breaker.state = "OPEN"
                  THEN [breaker EXCEPT !.state = "HALF_OPEN"] ELSE breaker
    /\ connections' = [connections EXCEPT !.opening = @ + 1]
    /\ executed' = [calls |-> executed.calls + 1, outcome |-> "invoked",
                    probes |-> IF breaker'.state = "HALF_OPEN"
                               THEN executed.probes + 1 ELSE 0]

\* createNewConnection resolves: onSuccess, and the connection is pooled
ConnectionOpens ==
    /\ OnlyConnects
    /\ connections.opening > 0
    /\ breaker' = onSuccess(breaker)
    /\ connections' = [pooled |-> TRUE, opening |-> connections.opening - 1]
    /\ executed' = [executed EXCEPT !.outcome = "success", !.probes = 0]

\* createNewConnection rejects: onFailure
ConnectionFails ==
    /\ OnlyConnects
    /\ connections.opening > 0
    /\ breaker' = onFailure(breaker, wall)
    /\ connections' = [connections EXCEPT !.opening = @ - 1]
    /\ executed' = [executed EXCEPT !.outcome = "failure",
                                    !.probes = IF breaker'.state = "HALF_OPEN" THEN @ ELSE 0]

\* the connection middleware under requests that overlap
NextBreaker ==
    \/ Wait
    \/ ConnectReuses
    \/ ConnectRejected
    \/ ConnectInvokes
    \/ ConnectionOpens
    \/ ConnectionFails

SpecBreaker == Init /\ [][NextBreaker]_vars

-----------------------------------------------------------------------------
(* Vocabulary of the properties *)

\* the ledger after a transaction with this result
After(L, result) == ApplyWrites(L, result.writes)

\* the stored document of a key, as the contract reads it
Doc(L, key) == JSONparse(L[key])

Current(doc) == Get(Get(doc, "locationData"), "current")
Previous(doc) == Get(Get(doc, "locationData"), "previous")

\* number of entries of the previous list of a document (0 without a list)
PreviousLength(doc) == IF IsArr(Previous(doc)) THEN Len(Val(Previous(doc))) ELSE 0

\* the transactions the model may still invoke
MayInvoke == nops < MaxOps

\* the two fields of a location entry
SameEntry(e, f) ==
    /\ Get(e, "location") = Get(f, "location")
    /\ Get(e, "arrivalDate") = Get(f, "arrivalDate")

IsPrefix(s, t) == Len(s) <= Len(t) /\ SubSeq(t, 1, Len(s)) = s

\* a stored notification: what getNotifications selects
IsNotification(doc) == Has(doc, "type")

ValidPayloads == {p \in ProductPayloads : validateProductData(JSONparse(p)) = OK}

-----------------------------------------------------------------------------
(* C1 *)

\* C1: a successful shipProductTo(id, L, T) leaves current = {location: L,
\* arrivalDate: T} in the stored record, and previous is the previous of
\* before with one entry appended, the current of before.
C1_ShipAppendsCurrent ==
    MayInvoke =>
    \A productId \in created, args \in ShipArguments, rnd \in RandomSuffixes :
        LET result == shipProductTo(ledger, productId, args[1], args[2], clock, clock, rnd)
            before == Doc(ledger, productId)
            after == Doc(After(ledger, result), productId)
        IN  result.err = OK =>
              /\ Names(Current(after)) = {"location", "arrivalDate"}
              /\ Get(Current(after), "location") = args[1]
              /\ Get(Current(after), "arrivalDate") = args[2]
              /\ Len(Val(Previous(after))) = Len(Val(Previous(before))) + 1
              /\ IsPrefix(Val(Previous(before)), Val(Previous(after)))
              /\ SameEntry(Val(Previous(after))[Len(Val(Previous(after)))], Current(before))

\* a product shipped twice, the second shipment just committed
C1_Witness ==
    /\ last = [op |-> "shipProductTo", err |-> OK]
    /\ \E productId \in created : PreviousLength(Doc(ledger, productId)) = 2

-----------------------------------------------------------------------------
(* C2 *)

\* C2: in every step the previous list of every product is a prefix of its
\* value after the step (a product stored without the list stays without).
C2_PreviousOnlyGrows ==
    [][\A productId \in created :
          /\ productId \in DOMAIN ledger'
          /\ LET before == Previous(Doc(ledger, productId))
                 after == Previous(Doc(ledger', productId))
             IN  IF IsArr(before)
                 THEN IsArr(after) /\ IsPrefix(Val(before), Val(after))
                 ELSE after = before]_vars

\* a shipped product whose record an acknowledgeNotification has rewritten
C2_Witness ==
    /\ last = [op |-> "acknowledgeNotification", err |-> OK]
    /\ \E productId \in created :
          /\ Has(Doc(ledger, productId), "acknowledged")
          /\ PreviousLength(Doc(ledger, productId)) = 1

-----------------------------------------------------------------------------
(* C3 *)

\* C3: createProduct of a valid payload whose id is not stored succeeds, and
\* getProduct of that id then returns the payload, member for member.
C3_CreateThenGet ==
    MayInvoke =>
    \A productJson \in ValidPayloads, rnd \in RandomSuffixes :
        LET result == createProduct(ledger, productJson, clock, clock, rnd)
            got == getProduct(After(ledger, result), PayloadId(productJson))
        IN  ~Stored(ledger, PayloadId(productJson)) =>
              /\ result.err = OK
              /\ got.err = OK
              /\ got.ret = JSONparse(productJson)

\* a product was just created and is stored
C3_Witness ==
    /\ last = [op |-> "createProduct", err |-> OK]
    /\ created # {}
    /\ \A productId \in created : getProduct(ledger, productId).err = OK

-----------------------------------------------------------------------------
(* C4 *)

\* C4: once createProduct has succeeded for an id, createProduct of any valid
\* payload with that id fails with AlreadyExists and writes nothing.
C4_SecondCreateFails ==
    MayInvoke =>
    \A productJson \in ValidPayloads, rnd \in RandomSuffixes :
        LET result == createProduct(ledger, productJson, clock, clock, rnd)
        IN  PayloadId(productJson) \in created =>
              /\ result.err = AlreadyExists
              /\ After(ledger, result) = ledger

\* a second createProduct was just refused, after the product had been shipped
C4_Witness ==
    /\ last = [op |-> "createProduct", err |-> AlreadyExists]
    /\ \E productId \in created : PreviousLength(Doc(ledger, productId)) = 1

-----------------------------------------------------------------------------
(* C5 *)

\* what the peer can read from its clock and from Math.random()
Readings == (0..MaxClock) \X RandomSuffixes

\* C5: a submit transaction with the same arguments on the same ledger gives
\* the same outcome and the same writes whatever the clock and Math.random()
\* return during the execution.
C5_SameWritesWhateverTheReadings ==
    MayInvoke =>
    \A r1 \in Readings, r2 \in Readings :
        /\ \A productJson \in ProductPayloads :
              createProduct(ledger, productJson, r1[1], r1[1], r1[2])
                = createProduct(ledger, productJson, r2[1], r2[1], r2[2])
        /\ \A productId \in ProductIds, args \in ShipArguments :
              shipProductTo(ledger, productId, args[1], args[2], r1[1], r1[1], r1[2])
                = shipProductTo(ledger, productId, args[1], args[2], r2[1], r2[1], r2[2])
        /\ \A productId \in ProductIds :
           \A qualityData \in QualityPayloads(productId) :
              addQualityRecord(ledger, productId, qualityData, r1[1], r1[1], r1[1], r1[2])
                = addQualityRecord(ledger, productId, qualityData, r2[1], r2[1], r2[1], r2[2])

-----------------------------------------------------------------------------
(* C6 *)

\* C6: queryAllProducts returns the stored record of each created product,
\* once, and nothing else.
C6_QueryAllProductsReturnsTheProducts ==
    LET returned == queryAllProducts(ledger)
    IN  /\ Len(returned) = Cardinality(created)
        /\ \A productId \in created :
              \E i \in 1..Len(returned) : returned[i] = Doc(ledger, productId)
        /\ \A i \in 1..Len(returned) : ~IsNotification(returned[i])

-----------------------------------------------------------------------------
(* C7 *)

IsAcknowledged(doc) == Get(doc, "acknowledged") = Bool(TRUE)

\* C7: in every step a notification that appears in the ledger is not
\* acknowledged, and a notification that is acknowledged stays acknowledged.
C7_AcknowledgedNeverReset ==
    [][\A key \in DOMAIN ledger' :
          LET after == Doc(ledger', key)
          IN  IsNotification(after) =>
                IF key \in DOMAIN ledger
                THEN IsAcknowledged(Doc(ledger, key)) => IsAcknowledged(after)
                ELSE Get(after, "acknowledged") = Bool(FALSE)]_vars

-----------------------------------------------------------------------------
(* C8 *)

\* the ids of the acknowledged notifications that getNotifications returns
AcknowledgedShown(L) ==
    LET shown == getNotifications(L, 0)
    IN  {Get(shown[i], "id") : i \in {j \in 1..Len(shown) : IsAcknowledged(shown[j])}}

\* C8: a successful acknowledgeNotification(id) rewrites a notification, sets
\* its acknowledged flag and nothing else, leaves every other key as it was,
\* and getNotifications then shows as acknowledged the ones shown before and
\* that notification.
C8_AcknowledgeChangesOneFlag ==
    MayInvoke =>
    \A notificationId \in AcknowledgeIds(ProductIds) :
        LET result == acknowledgeNotification(ledger, notificationId)
            L2 == After(ledger, result)
        IN  result.err = OK =>
              /\ DOMAIN L2 = DOMAIN ledger
              /\ \A key \in DOMAIN ledger \ {notificationId} : L2[key] = ledger[key]
              /\ IsNotification(Doc(ledger, notificationId))
              /\ Doc(L2, notificationId)
                   = Set(Doc(ledger, notificationId), "acknowledged", Bool(TRUE))
              /\ AcknowledgedShown(L2)
                   = AcknowledgedShown(ledger) \cup {Str(notificationId)}

-----------------------------------------------------------------------------
(* C9 *)

\* C9: acknowledgeNotification(id) fails with NotFound and writes nothing when
\* the key holds no notification, whatever it holds.
C9_AcknowledgeNeedsANotification ==
    MayInvoke =>
    \A notificationId \in AcknowledgeIds(ProductIds) :
        LET result == acknowledgeNotification(ledger, notificationId)
            held == Stored(ledger, notificationId)
                      /\ IsNotification(Doc(ledger, notificationId))
        IN  ~held =>
              /\ result.err = NotificationNotFound
              /\ After(ledger, result) = ledger

-----------------------------------------------------------------------------
(* C10 *)

ValidQualityPayloads(productId) ==
    {q \in QualityPayloads(productId) : validateQualityRecord(JSONparse(q)) = OK}

\* C10: every successful addQualityRecord for a product adds one record to
\* what getQualityRecords returns for it, the records returned before being
\* all still there.
C10_QualityRecordsNeverOverwritten ==
    MayInvoke =>
    \A productId \in created, rnd \in RandomSuffixes :
    \A qualityData \in ValidQualityPayloads(productId) :
        LET result == addQualityRecord(ledger, productId, qualityData,
                                       clock, clock, clock, rnd)
            before == getQualityRecords(ledger, productId)
            after == getQualityRecords(After(ledger, result), productId)
        IN  result.err = OK => Len(after) = Len(before) + 1

-----------------------------------------------------------------------------
(* C11 *)

\* C11: every record getQualityRecords(p) returns was added for the product
\* id p, for every product id p.
C11_OnlyRecordsOfTheProduct ==
    \A productId \in ProductIds :
        LET returned == getQualityRecords(ledger, productId)
        IN  \A i \in 1..Len(returned) : Get(returned[i], "productId") = Str(productId)

-----------------------------------------------------------------------------
(* C12 *)

\* the timestamps of the records getQualityRecords returns, as times
ReturnedTimes(L, productId) ==
    LET returned == getQualityRecords(L, productId)
    IN  [i \in 1..Len(returned) |-> GetTime(Val(Get(returned[i], "timestamp")))]

\* C12 as stated: the records getQualityRecords returns for a product are in
\* strictly descending order of timestamp.
C12_StrictlyDescending ==
    \A productId \in ProductIds :
        LET times == ReturnedTimes(ledger, productId)
        IN  \A i \in 1..Len(times) - 1 : times[i] > times[i + 1]

\* C12, amended: getQualityRecords returns every record stored in the key
\* range of the product, once, in descending order of timestamp, records of
\* equal timestamp next to each other.
C12_Descending ==
    \A productId \in ProductIds :
        LET returned == getQualityRecords(ledger, productId)
            times == ReturnedTimes(ledger, productId)
            keys == GetStateByRange(ledger,
                                    <<"QUALITY_">> \o productId \o <<"_">>,
                                    <<"QUALITY_">> \o productId \o <<"_", "uFFFF">>)
        IN  /\ \A i \in 1..Len(times) - 1 : times[i] >= times[i + 1]
            /\ Len(returned) = Len(keys)
            /\ \A k \in 1..Len(keys) :
                  Cardinality({i \in 1..Len(returned) : returned[i] = Doc(ledger, keys[k])})
                    = Cardinality({j \in 1..Len(keys) :
                                      Doc(ledger, keys[j]) = Doc(ledger, keys[k])})

\* two records of one product, the one with the later timestamp added last
C12_Witness ==
    /\ last = [op |-> "addQualityRecord", err |-> OK]
    /\ \E productId \in created :
          LET times == ReturnedTimes(ledger, productId)
              key0 == QualityKey(productId, 0)
              key1 == QualityKey(productId, 1)
          IN  /\ Len(times) = 2
              /\ times[1] > times[2]
              /\ Stored(ledger, key0) /\ Stored(ledger, key1)
              /\ GetTime(Val(Get(Doc(ledger, key0), "timestamp")))
                   < GetTime(Val(Get(Doc(ledger, key1), "timestamp")))

-----------------------------------------------------------------------------
(* C13 *)

\* scores around the bounds of the range and the severity thresholds
Scores == {-1, 0, 45, 59, 60, 79, 80, 90, 100, 101}

\* a record with one of the scores, all its other fields valid
ScoredRecord(productId, score) ==
    QualityRecord(productId, score, IsoDate("2021-06-26", "10:00:00.000Z"), TRUE)

\* C13: the notification a successful addQualityRecord writes has type
\* quality_check, is not acknowledged, and has severity info for a score of
\* 80 or more, warning for 60 to 79, error below 60.
C13_SeverityOfQualityCheck ==
    MayInvoke =>
    \A productId \in created, score \in Scores, rnd \in RandomSuffixes :
        LET result == addQualityRecord(ledger, productId, ScoredRecord(productId, score),
                                       clock, clock, clock, rnd)
            notification == Doc(After(ledger, result), NotificationId(clock, rnd))
        IN  result.err = OK =>
              /\ Len(result.writes) = 2
              /\ result.writes[2][1] = NotificationId(clock, rnd)
              /\ Get(notification, "type") = Str(<<"quality_check">>)
              /\ Get(notification, "productId") = Str(productId)
              /\ Get(notification, "acknowledged") = Bool(FALSE)
              /\ Get(notification, "severity")
                   = Str(<<CASE score >= 80 -> "info"
                             [] score >= 60 /\ score < 80 -> "warning"
                             [] score < 60 -> "error">>)

\* a record of score 45 was just added and its notification says error
C13_Witness ==
    /\ last = [op |-> "addQualityRecord", err |-> OK]
    /\ \E key \in DOMAIN ledger :
          /\ Get(Doc(ledger, key), "type") = Str(<<"quality_check">>)
          /\ Get(Doc(ledger, key), "severity") = Str(<<"error">>)
          /\ \E productId \in created :
                Get(Doc(ledger, key), "message")
                  = Str(<<"Quality inspection completed for ">> \o productId
                          \o <<". Score: ", "4", "5", "/100">>)

-----------------------------------------------------------------------------
(* C14 *)

\* the transaction succeeds as it does without the failure, and commits its
\* own putState
KeepsPrimaryWrite(failing, normal) ==
    /\ failing.err = normal.err
    /\ normal.err = OK => failing.writes = <<normal.writes[1]>>

\* C14: when the putState of the notification throws, createProduct,
\* shipProductTo and addQualityRecord succeed exactly when they do otherwise,
\* and commit the product record or the quality record.
C14_NotificationFailureSwallowed ==
    MayInvoke =>
    \A rnd \in RandomSuffixes :
        /\ \A productJson \in {p \in ProductPayloads : PayloadId(p) \in OneProduct} :
              KeepsPrimaryWrite(
                  createProductOn(ledger, productJson, clock, clock, rnd, TRUE),
                  createProductOn(ledger, productJson, clock, clock, rnd, FALSE))
        /\ \A productId \in OneProduct, args \in ShipArguments :
              KeepsPrimaryWrite(
                  shipProductToOn(ledger, productId, args[1], args[2], clock, clock, rnd, TRUE),
                  shipProductToOn(ledger, productId, args[1], args[2], clock, clock, rnd, FALSE))
        /\ \A productId \in OneProduct :
           \A qualityData \in QualityPayloads(productId) :
              KeepsPrimaryWrite(
                  addQualityRecordOn(ledger, productId, qualityData,
                                     clock, clock, clock, rnd, TRUE),
                  addQualityRecordOn(ledger, productId, qualityData,
                                     clock, clock, clock, rnd, FALSE))

\* a quality record was just added to a product, and the ledger holds no
\* notification: every notification write has failed
C14_Witness ==
    /\ last = [op |-> "addQualityRecord", err |-> OK]
    /\ created # {}
    /\ \A key \in DOMAIN ledger : ~IsNotification(Doc(ledger, key))
    /\ \E productId \in created : Len(getQualityRecords(ledger, productId)) = 1

-----------------------------------------------------------------------------
(* C15 *)

\* C15: createProduct of a payload whose id is stored fails with
\* AlreadyExists, whatever the rest of the payload is.
C15_ExistenceCheckedFirst ==
    MayInvoke =>
    \A productJson \in ProductPayloads, rnd \in RandomSuffixes :
        Stored(ledger, PayloadId(productJson)) =>
            createProduct(ledger, productJson, clock, clock, rnd).err = AlreadyExists

-----------------------------------------------------------------------------
(* C16 *)

-----------------------------------------------------------------------------
(* C17 *)

\* C17: shipProductTo of a product id that is not stored fails with NotFound
\* and writes nothing, whatever the location and the arrival date are.
C17_ShipUnknownProduct ==
    MayInvoke =>
    \A productId \in ProductIds, args \in ShipArguments, rnd \in RandomSuffixes,
       putStateFails \in Faults :
        LET result == shipProductToOn(ledger, productId, args[1], args[2],
                                      clock, clock, rnd, putStateFails)
        IN  ~Stored(ledger, productId) =>
              /\ result.err = NotFound
              /\ result.writes = <<>>
              /\ After(ledger, result) = ledger

\* a shipProductTo was just refused for want of the product, after another
\* transaction
C17_Witness ==
    /\ last = [op |-> "shipProductTo", err |-> NotFound]
    /\ nops >= 2
    /\ \E productId \in ProductIds : ~Stored(ledger, productId)

-----------------------------------------------------------------------------
(* C18 *)

\* an object without a member
Without(o, name) == Obj(SelectSeq(Val(o), LAMBDA m : m[1] # name))

\* the valid test product of an id
ValidProduct(id) == TestProduct(id, <<"Apples">>, LocationData(TRUE))

\* a product whose locationData.current has a member replaced
WithCurrent(product, name, v) ==
    LET ld == Get(product, "locationData")
    IN  Set(product, "locationData", Set(ld, "current", Set(Get(ld, "current"), name, v)))

\* the ways a member can be missing or empty: absent, null, "", blanks
Missing == {Undefined, Null, Str(<<>>), Str(<<" ", " ">>)}

\* payloads with one required member missing or empty, a unit quantity that
\* is not positive, or an expiration date not after the production date
RejectedPayloads ==
    UNION {
        {JSONstringify(Set(ValidProduct(id), f, v)) :
            f \in {RequiredProductFields[i] : i \in 2..Len(RequiredProductFields)},
            v \in Missing}
        \cup {JSONstringify(WithCurrent(ValidProduct(id), f, v)) :
                f \in {"location", "arrivalDate"}, v \in Missing}
        \cup {JSONstringify(Set(ValidProduct(id), "unitQuantity", Num(n))) : n \in {0, -1}}
        \cup {JSONstringify(Set(ValidProduct(id), "expirationDate",
                                Str(IsoDate("2021-06-24", t)))) :
                t \in {"18:25:43.511Z", "00:00:00.000Z"}} : id \in ProductIds}
    \cup {JSONstringify(Set(ValidProduct(<<>>), "id", v)) : v \in Missing}

\* payloads without the object that holds the current location
PayloadsWithoutCurrent ==
    UNION {{JSONstringify(Without(ValidProduct(id), "locationData")),
            JSONstringify(Set(ValidProduct(id), "locationData",
                              Obj(<< <<"previous", Arr(<<>>)>> >>)))} : id \in ProductIds}

\* the errors validateProductData throws by itself
ValidationErrors ==
    {"FieldRequired", "InvalidDateFormat", "ExpirationNotAfterProduction",
     "UnitQuantityNotPositive", "BatchQuantityNotPositive", "NameTooLong",
     "PlaceOfOriginTooLong"}

-----------------------------------------------------------------------------
(* C19 *)

\* C19: addQualityRecord for a stored product rejects a record with a score
\* below 0 or above 100 and writes nothing; it accepts a record with a score
\* from 0 to 100, both included, and stores it under the quality key.
C19_ScoreBounds ==
    MayInvoke =>
    \A productId \in created, score \in Scores, rnd \in RandomSuffixes :
        LET qualityData == ScoredRecord(productId, score)
            result == addQualityRecord(ledger, productId, qualityData,
                                       clock, clock, clock, rnd)
        IN  IF score < 0 \/ score > 100
            THEN /\ result.err = ScoreOutOfRange
                 /\ result.writes = <<>>
                 /\ After(ledger, result) = ledger
            ELSE /\ result.err = OK
                 /\ result.writes[1] = <<QualityKey(productId, clock), qualityData>>
                 /\ Get(Doc(After(ledger, result), QualityKey(productId, clock)), "score")
                      = Num(score)

\* a record of score 101 was just rejected for a product that a record of
\* score 0 can be added to
C19_Witness ==
    /\ last = [op |-> "addQualityRecord", err |-> ScoreOutOfRange]
    /\ \E productId \in created, rnd \in RandomSuffixes :
          addQualityRecord(ledger, productId, ScoredRecord(productId, 0),
                           clock, clock, clock, rnd).err = OK

-----------------------------------------------------------------------------
(* C20 *)

\* the documents of the ledger that are products: they have an id and are
\* not notifications
ProductKeys(L) == {k \in DOMAIN L : Has(Doc(L, k), "id") /\ ~IsNotification(Doc(L, k))}

\* the documents of the ledger that are quality records
QualityKeys(L) == {k \in DOMAIN L : Has(Doc(L, k), "inspector")}

\* C20: on a ledger that holds no products and no quality records,
\* getAnalyticsData succeeds and returns totalProducts = 0,
\* onTimeDeliveryRate = 100, qualityScore = 95.0 and an empty categoryStats.
C20_AnalyticsOfEmptyLedger ==
    ProductKeys(ledger) = {} /\ QualityKeys(ledger) = {} =>
    \A westOfUTC \in BOOLEAN :
        LET result == getAnalyticsData(ledger, westOfUTC)
        IN  /\ result.err = OK
            /\ result.ret.totalProducts = 0
            /\ result.ret.onTimeDeliveryRate = 100
            /\ result.ret.qualityScore = 950
            /\ DOMAIN result.ret.categoryStats = {}

\* transactions were submitted, none stored a product or a quality record,
\* and the analytics of that ledger are asked for
C20_Witness ==
    /\ nops = MaxOps
    /\ last.op = "addQualityRecord" /\ last.err = NotFound
    /\ ProductKeys(ledger) = {} /\ QualityKeys(ledger) = {}
    /\ getAnalyticsData(ledger, FALSE).ret.qualityScore = 950

-----------------------------------------------------------------------------
(* C21 *)

\* the months of the dates of the model
Months == {"2021-06", "2021-07", "2022-06"}

\* the ledgers getAnalyticsData answers for
Analysable(L) ==
    \A i \in 1..Len(queryAllProducts(L)) : AnalyticsFault(queryAllProducts(L)[i]) = OK

\* the products that were shipped and whose current arrival date falls in
\* the month
ShippedIn(L, month) ==
    {i \in 1..Len(queryAllProducts(L)) :
        LET product == queryAllProducts(L)[i]
        IN  /\ HistoryLength(product) > 0
            /\ YearMonth(Val(Get(Current(product), "arrivalDate"))) = month}

\* C21: the shipments count getAnalyticsData gives a month is the number of
\* shipped products whose current arrival date falls in that month, whether
\* or not a product was produced in that month.
C21_ShipmentsOfTheMonth ==
    Analysable(ledger) =>
    LET products == queryAllProducts(ledger)
        data == monthlyData(products, Len(products))
    IN  \A month \in Months :
            Cardinality(ShippedIn(ledger, month))
              = IF month \in DOMAIN data THEN data[month].shipments ELSE 0

-----------------------------------------------------------------------------
(* C22 *)

\* the step commits a shipment of the product
CommitsShipment(productId) ==
    /\ Len(pending') < Len(pending)
    /\ last' = [op |-> "shipProductTo", err |-> OK]

\* C22: when invocations overlap, every shipProductTo that commits appends
\* to the history exactly one entry, the current location it replaces, and
\* no other step changes the history of a stored product: a shipment
\* simulated on a record that another commit has replaced is dropped by the
\* validation of its read, and the ledger stays as it is.
C22_NoShipmentLost ==
    [][\A productId \in OneProduct :
          productId \in DOMAIN ledger =>
             LET before == Doc(ledger, productId)
                 after == Doc(ledger', productId)
             IN  /\ CommitsShipment(productId) =>
                      /\ IsArr(Previous(after))
                      /\ Val(Previous(after)) =
                            Append(Val(Previous(before)), Current(before))
                 /\ ~CommitsShipment(productId) => Previous(after) = Previous(before)
                 /\ last'.err = MVCCReadConflict => ledger' = ledger]_vars

\* two shipments were simulated on the same record of the product; one is
\* committed and the other was just dropped
C22_Witness ==
    /\ last = [op |-> "shipProductTo", err |-> MVCCReadConflict]
    /\ pending = <<>>
    /\ \E productId \in created :
          /\ PreviousLength(Doc(ledger, productId)) = 1
          /\ version[productId] = 2

-----------------------------------------------------------------------------
(* C23 *)

\* the lockout imposed last is still running
LockoutRunning == lockout.set /\ wall < lockout.at

\* C23: while the lockout imposed at the fifth failed attempt is running, no
\* login is answered with a token.
C23_NoTokenDuringLockout ==
    [][answer' = TokenResponse /\ logins' # logins => ~LockoutRunning]_vars

-----------------------------------------------------------------------------
(* C24 *)

\* C24: a request with the token of a client to a route that submits a
\* transaction is answered 403, and no transaction is submitted for it.
C24_ClientIsReadOnly ==
    request.role = "client" => request.status = 403 /\ ~request.submitted

-----------------------------------------------------------------------------
(* C25 *)

\* C25: on every reachable ledger getAnalyticsData completes, and its
\* totalProducts is the number of products created.
C25_AnalyticsCountsTheProducts ==
    \A westOfUTC \in BOOLEAN :
        LET result == getAnalyticsData(ledger, westOfUTC)
        IN  /\ result.err = OK
            /\ result.ret.totalProducts = Cardinality(created)

-----------------------------------------------------------------------------
(* C26 *)

\* payloads that validateProductData accepts: the test product, the test
\* product without locationData.previous, without componentProductIds
AcceptedPayloads ==
    UNION {{JSONstringify(TestProduct(id, <<"Apples">>, LocationData(TRUE))),
            JSONstringify(TestProduct(id, <<"Pears">>, LocationData(FALSE))),
            JSONstringify(Without(TestProduct(id, <<"Apples">>, LocationData(TRUE)),
                                  "componentProductIds"))} : id \in OneProduct}

\* a non-empty location with a valid arrival date
ValidShipArguments ==
    {args \in ShipArguments : ~requireFieldThrows(args[1]) /\ isValidDate(args[2])}

\* C26: a product that createProduct accepted can be shipped with a non-empty
\* location and a valid arrival date, and read with getProductWithHistory,
\* also when its payload had no locationData.previous or no
\* componentProductIds.
C26_AcceptedProductsCanBeShippedAndRead ==
    MayInvoke =>
    \A productJson \in AcceptedPayloads, rnd \in RandomSuffixes, args \in ValidShipArguments :
        LET result == createProduct(ledger, productJson, clock, clock, rnd)
            L == After(ledger, result)
            productId == PayloadId(productJson)
        IN  result.err = OK =>
              /\ shipProductTo(L, productId, args[1], args[2], clock, clock, rnd).err = OK
              /\ getProductWithHistory(L, productId).err = OK

-----------------------------------------------------------------------------
(* C27 *)

\* the locationData of createTestProduct: a current entry and two previous
\* entries
LocationDataWithHistory ==
    Obj(<< <<"current", Obj(<< <<"arrivalDate", Str(IsoDate("2021-06-30", "18:00:58.511Z"))>>,
                               <<"location", Str(<<"Walmart Supercentre">>)>> >>)>>,
           <<"previous",
             Arr(<< ProductLocationEntry(Str(IsoDate("2021-06-24", "18:25:43.511Z")),
                                         Str(<<"Etobicoke, ON, Canada">>)),
                    ProductLocationEntry(Str(IsoDate("2021-06-25", "09:05:12.511Z")),
                                         Str(<<"Brampton, ON, Canada">>)) >>)>> >>)

\* payloads of a new product: with an empty history, and createTestProduct's
HistoryPayloads ==
    UNION {{JSONstringify(TestProduct(id, <<"Apples">>, LocationData(TRUE))),
            JSONstringify(TestProduct(id, <<"Apple Jam">>, LocationDataWithHistory))}
           : id \in OneProduct}

\* C27: locationData.previous of a product has as many entries as shipProductTo
\* succeeded on it since its creation: none when createProduct has stored it,
\* one after the first shipment; the analytics then count a new product
\* neither as an active shipment nor as a completed delivery.
C27_PreviousCountsTheShipments ==
    MayInvoke =>
    \A productJson \in HistoryPayloads, rnd \in RandomSuffixes, args \in ValidShipArguments :
        LET result == createProduct(ledger, productJson, clock, clock, rnd)
            L == After(ledger, result)
            productId == PayloadId(productJson)
            shipped == shipProductTo(L, productId, args[1], args[2], clock, clock, rnd)
            new == Analytics(<<Doc(L, productId)>>, <<>>, FALSE)
        IN  result.err = OK =>
              /\ PreviousLength(Doc(L, productId)) = 0
              /\ new.activeShipments = 0
              /\ new.completedDeliveries = 0
              /\ shipped.err = OK
              /\ PreviousLength(Doc(After(L, shipped), productId)) = 1

-----------------------------------------------------------------------------
(* C28 *)

\* C28: after the timeout of an OPEN breaker one attempt is let through: while
\* the breaker is HALF_OPEN, one operation has been invoked since it left
\* OPEN.
C28_OneAttemptAfterTimeout ==
    breaker.state = "HALF_OPEN" => executed.probes = 1

-----------------------------------------------------------------------------
(* C29 *)

\* the date-time a is not earlier than the date-time b
NotEarlier(a, b) ==
    \/ GetTime(a) > GetTime(b)
    \/ GetTime(a) = GetTime(b) /\ GetMillis(a) >= GetMillis(b)

\* C29: for every product with a previous entry, current.arrivalDate is not
\* earlier than previous[0].arrivalDate, and the averageDeliveryTime of the
\* analytics of the product is not negative.
C29_DeliveryTimeNotNegative ==
    \A productId \in created :
        LET product == Doc(ledger, productId)
            current == Get(Get(product, "locationData"), "current")
        IN  PreviousLength(product) >= 1 =>
              /\ NotEarlier(Val(Get(current, "arrivalDate")),
                            Val(Get(Val(Previous(product))[1], "arrivalDate")))
              /\ Analytics(<<product>>, <<>>, FALSE).averageDeliveryTime >= 0

-----------------------------------------------------------------------------
(* C30 *)

\* the lockout of the account has expired
LockoutExpired == account.lockedUntil.set /\ ~IsLocked(account, wall)

\* C30: once the lockout of the account has expired, a wrong password does
\* not lock the account again, nor do four wrong passwords in a row.
C30_ToleratesWrongPasswordsAfterExpiry ==
    LockoutExpired /\ nlogins < MaxLogins =>
        LET one == FailedAttempt(account, wall)
            four == FailedAttempt(FailedAttempt(FailedAttempt(one, wall), wall), wall)
        IN  /\ ~IsLocked(one, wall)
            /\ ~IsLocked(four, wall)

====
